---- MODULE Spec2Model ----
(***************************************************************************)
(* Model of the WordPress + MySQL provisioning handler                     *)
(* (handleCreateWordPress, src/main.go:353-618) and of the cluster helpers *)
(* it calls (src/unnamed/part_000).                                        *)
(*                                                                         *)
(* Go strings that the program slices or concatenates (namespaces,         *)
(* prefixes, suffixes, resource names, passwords) are sequences of         *)
(* one-character strings, so that len(), s[:n] and + are computed as the   *)
(* code computes them.  Fixed texts that are only ever compared (messages, *)
(* kinds, labels) are TLA+ strings.                                        *)
(***************************************************************************)
EXTENDS Integers, Sequences, FiniteSets, TLC

VARIABLES
    pc,        \* pc[r]: position of request r's handler goroutine
    request,   \* request[r]: the inbound HTTP call (method, body)
    payload,   \* payload[r]: the decoded RequestPayload, after defaulting
    suffix,    \* suffix[r]: the handler's local `suffix`
    elapsed,   \* elapsed[r]: seconds spent in the current wait.PollImmediate
    cluster,   \* objects held by the control plane
    events,    \* events[r]: what the handler asked of its collaborators, in order
    resp,      \* resp[r]: the APIResponse written, with its HTTP status
    lastFetch, \* lastFetch[r]: what the poll condition's last status fetch returned
    fnArgs,    \* arguments of a helper called on its own
    fnResult   \* what the helper returned for fnArgs

fnVars == <<fnArgs, fnResult>>

vars == <<pc, request, payload, suffix, elapsed, cluster, events, resp, lastFetch, fnVars>>

----------------------------------------------------------------------------
(* Bounds and program constants *)

MaxReqs == 2                \* request slots of the model
MaxConcPolls == 1           \* polls after the first that a wait of two concurrent requests is followed
MaxPasswordLen == 16        \* longest password generateRandomPassword is asked for on its own
MaxPrefixLen == 1000        \* longest prefix buildResourceName is called with on its own

MaxTotal == 60              \* buildResourceName: maxTotal
SuffixLen == 5              \* generateRandomSuffix(5)
PasswordLen == 16           \* generateRandomPassword(16)
DefaultDiskGB == 5          \* default disk sizes
PollInterval == 5           \* wait.PollImmediate(5*time.Second, ...)
ReadyTimeout == 120         \* 120*time.Second
StatusOK == 200
StatusBadRequest == 400
StatusMethodNotAllowed == 405
StatusInternalServerError == 500

Reqs == 1..MaxReqs

----------------------------------------------------------------------------
(* String literals of the program, as character sequences *)

Empty == <<>>
Demo == <<"d","e","m","o">>
Site == <<"s","i","t","e">>
Blank == <<" ", " ">>
LongPrefix == [i \in 1..64 |-> IF i <= 50 THEN "x" ELSE "y"]
Wp == <<"w","p">>

TDbPV == <<"d","b","-","p","v">>
TDbPVC == <<"d","b","-","p","v","c">>
TDb == <<"d","b">>
TDbSvc == <<"d","b","-","s","v","c">>
TDbSecret == <<"d","b","-","s","e","c","r","e","t">>
TWpPV == <<"w","p","-","p","v">>
TWpPVC == <<"w","p","-","p","v","c">>
TWp == <<"w","p">>
TWpSvc == <<"w","p","-","s","v","c">>

DashDbSvc == <<"-","d","b","-","s","v","c">>
MntData == <<"/","m","n","t","/","d","a","t","a","/">>
UnderData == <<"_","d","a","t","a">>
WordpressDb == <<"w","o","r","d","p","r","e","s","s","d","b">>
Wordpress == <<"w","o","r","d","p","r","e","s","s">>

SuffixChars ==
    <<"a","b","c","d","e","f","g","h","i","j","k","l","m","n","o","p","q","r",
      "s","t","u","v","w","x","y","z","0","1","2","3","4","5","6","7","8","9">>

PasswordChars ==
    <<"A","B","C","D","E","F","G","H","I","J","K","L","M","N","O","P","Q","R",
      "S","T","U","V","W","X","Y","Z",
      "a","b","c","d","e","f","g","h","i","j","k","l","m","n","o","p","q","r",
      "s","t","u","v","w","x","y","z",
      "0","1","2","3","4","5","6","7","8","9",
      "!","@","#","$","%","^","&","*","(",")","-","_","+">>

----------------------------------------------------------------------------
(* Pure helpers *)

IsSpace(c) == c \in {" ", "\t", "\n", "\r"}

RECURSIVE TrimLeft(_)
TrimLeft(s) ==
    IF s # <<>> /\ IsSpace(Head(s)) THEN TrimLeft(Tail(s)) ELSE s

RECURSIVE TrimRight(_)
TrimRight(s) ==
    IF s # <<>> /\ IsSpace(s[Len(s)]) THEN TrimRight(SubSeq(s, 1, Len(s) - 1)) ELSE s

TrimSpace(s) == TrimRight(TrimLeft(s))

\* mutant: the prefix is never cut
buildResourceNameNoTruncate(userPrefix, resourceType, sfx) ==
    userPrefix \o <<"-">> \o sfx \o <<"-">> \o resourceType

\* mutant: the name is built without the suffix
buildResourceNameNoSuffix(userPrefix, resourceType, sfx) ==
    LET allowed == MaxTotal - (Len(resourceType) + 1)
        prefix == IF Len(userPrefix) > allowed
                  THEN SubSeq(userPrefix, 1, allowed)
                  ELSE userPrefix
    IN  prefix \o <<"-">> \o resourceType

buildResourceName(userPrefix, resourceType, sfx) ==
    LET fixedLen == Len(resourceType) + 5 + 2
        allowed0 == MaxTotal - fixedLen
        allowed == IF allowed0 < 0 THEN 0 ELSE allowed0
        prefix == IF Len(userPrefix) > allowed
                  THEN SubSeq(userPrefix, 1, allowed)
                  ELSE userPrefix
    IN  prefix \o <<"-">> \o sfx \o <<"-">> \o resourceType

\* rnd[i] is the value rand.Int(rand.Reader, 36) returns at iteration i
generateRandomSuffix(n, rnd) == [i \in 1..n |-> SuffixChars[rnd[i] + 1]]

\* bytes[i] is the byte rand.Read put at position i
\* mutant: the loop stops one character early
generateRandomPasswordOneShort(length, bytes) ==
    [i \in 1..(length - 1) |-> PasswordChars[(bytes[i] % Len(PasswordChars)) + 1]]

generateRandomPassword(length, bytes) ==
    [i \in 1..length |-> PasswordChars[(bytes[i] % Len(PasswordChars)) + 1]]

----------------------------------------------------------------------------
(* Values *)

\* an APIResponse message: a format text with the name and the wrapped
\* error cause substituted into it (fmt.Sprintf / fmt.Errorf)
Msg(text, name, cause) == [fmt |-> text, name |-> name, cause |-> cause]
Plain(text) == Msg(text, Empty, "")

ZeroPayload ==
    [Namespace |-> Empty, DeploymentName |-> Empty,
     PersistenceDiskGB |-> 0, DatabaseDiskGB |-> 0]

NoRequest == [method |-> "", bodyOk |-> FALSE, body |-> ZeroPayload]

\* status = 0: nothing written yet
NoResp == [status |-> 0, Success |-> FALSE, Message |-> Plain(""), Resources |-> <<>>]

\* the poll condition's `deploy, err` before any fetch
NoFetch == [err |-> FALSE, ReadyReplicas |-> 0]

\* no helper call
NoArgs == [prefix |-> Empty, resourceType |-> Empty, suffix |-> Empty]

Event(op, kind, name, res) == [op |-> op, kind |-> kind, name |-> name, res |-> res]

Entry(label, name) == [label |-> label, name |-> name]

\* inbound calls the model draws from
Methods == {"POST", "GET"}
NamespaceSamples == {Empty, Demo}
PrefixSamples == {Empty, Blank, Site, LongPrefix}
SizeSamples == {-1, 0, 3}
RequestSamples ==
    { [method |-> m, bodyOk |-> ok,
       body |-> [Namespace |-> ns, DeploymentName |-> dn,
                 PersistenceDiskGB |-> ps, DatabaseDiskGB |-> ds]] :
        m \in Methods, ok \in BOOLEAN, ns \in NamespaceSamples,
        dn \in PrefixSamples, ps \in SizeSamples, ds \in SizeSamples }

\* outcomes of the random source the model draws from
SuffixRandSamples == { <<0, 1, 2, 3, 4>>, <<35, 7, 10, 28, 16>> }
PasswordByteSamples ==
    { [i \in 1..PasswordLen |-> (i * 37) % 256],
      [i \in 1..PasswordLen |-> 255 - i] }

----------------------------------------------------------------------------
(* Resource names of one request (main.go:442-451) *)

dbPVName(r) == buildResourceName(payload[r].DeploymentName, TDbPV, suffix[r])
dbPVCName(r) == buildResourceName(payload[r].DeploymentName, TDbPVC, suffix[r])
dbDeploymentName(r) == buildResourceName(payload[r].DeploymentName, TDb, suffix[r])
dbServiceName(r) == buildResourceName(payload[r].DeploymentName, TDbSvc, suffix[r])
dbSecretName(r) == buildResourceName(payload[r].DeploymentName, TDbSecret, suffix[r])
\* mutant: the name of the WordPress volume is built with a suffix drawn anew
wpPVNameFreshSuffix(r) ==
    buildResourceName(payload[r].DeploymentName, TWpPV,
                      generateRandomSuffix(SuffixLen, <<1, 1, 1, 1, 1>>))

wpPVName(r) == buildResourceName(payload[r].DeploymentName, TWpPV, suffix[r])
wpPVCName(r) == buildResourceName(payload[r].DeploymentName, TWpPVC, suffix[r])
wpDeploymentName(r) == buildResourceName(payload[r].DeploymentName, TWp, suffix[r])
wpServiceName(r) == buildResourceName(payload[r].DeploymentName, TWpSvc, suffix[r])

----------------------------------------------------------------------------
(* Resource descriptors (unnamed/part_000) *)

Object(kind, ns, name, spec) == [kind |-> kind, ns |-> ns, name |-> name, spec |-> spec]

NamespaceObj(namespace) == Object("Namespace", Empty, namespace, [labels |-> Empty])

PersistentVolumeObj(pvName, hostPath, sizeGB) ==
    Object("PV", Empty, pvName,
           [labelApp |-> pvName, capacityGi |-> sizeGB, hostPath |-> hostPath,
            reclaim |-> "Retain"])

PersistentVolumeClaimObj(namespace, pvcName, pvName, sizeGB) ==
    Object("PVC", namespace, pvcName,
           [labelApp |-> pvcName, requestGi |-> sizeGB, selectorApp |-> pvName])

\* mutant: WordPress is given the root password
SecretDataRootForWordPress(rootPass, wpPass, deployName) ==
    [MYSQL_ROOT_PASSWORD |-> rootPass,
     MYSQL_DATABASE |-> WordpressDb,
     MYSQL_USER |-> Wordpress,
     MYSQL_PASSWORD |-> wpPass,
     WORDPRESS_DB_HOST |-> deployName \o DashDbSvc,
     WORDPRESS_DB_USER |-> Wordpress,
     WORDPRESS_DB_PASSWORD |-> rootPass,
     WORDPRESS_DB_NAME |-> WordpressDb]

SecretData(rootPass, wpPass, deployName) ==
    [MYSQL_ROOT_PASSWORD |-> rootPass,
     MYSQL_DATABASE |-> WordpressDb,
     MYSQL_USER |-> Wordpress,
     MYSQL_PASSWORD |-> wpPass,
     WORDPRESS_DB_HOST |-> deployName \o DashDbSvc,
     WORDPRESS_DB_USER |-> Wordpress,
     WORDPRESS_DB_PASSWORD |-> wpPass,
     WORDPRESS_DB_NAME |-> WordpressDb]

SecretObj(namespace, secretName, data) ==
    Object("Secret", namespace, secretName, [data |-> data])

MySQLDeploymentObj(namespace, deployName, pvcName, secretName) ==
    Object("Deployment", namespace, deployName,
           [labelApp |-> deployName, image |-> "mysql:8", replicas |-> 1,
            envFromSecret |-> secretName, claimName |-> pvcName])

MySQLServiceObj(namespace, svcName, deployName) ==
    Object("Service", namespace, svcName, [selectorApp |-> deployName, port |-> 3306])

WordPressDeploymentObj(namespace, deployName, pvcName, secretName, dbSvcName) ==
    Object("Deployment", namespace, deployName,
           [labelApp |-> deployName, image |-> "wordpress:6.7.1", replicas |-> 1,
            envFromSecret |-> secretName, claimName |-> pvcName])

WordPressServiceObj(namespace, svcName, deployName) ==
    Object("Service", namespace, svcName, [selectorApp |-> deployName, port |-> 80])

HostPath(namespace, pvName) == MntData \o namespace \o <<"/">> \o pvName \o UnderData

----------------------------------------------------------------------------
(* The Cluster Gateway: what a Get or a Create can answer *)

Exists(kind, ns, name) ==
    \E o \in cluster : o.kind = kind /\ o.ns = ns /\ o.name = name

\* a Get answers the object, not-found, or a transport/auth error
GetResults(kind, ns, name) ==
    IF Exists(kind, ns, name) THEN {"ok", "error"} ELSE {"notfound", "error"}

\* a Create of a name already taken is refused by the control plane
CreateResults(obj) ==
    IF Exists(obj.kind, obj.ns, obj.name) THEN {"exists", "error"} ELSE {"ok", "error"}

\* a status fetch of a deployment: an error, or its ReadyReplicas
StatusResults(ns, name) ==
    {[err |-> TRUE, ReadyReplicas |-> 0]} \cup
    (IF Exists("Deployment", ns, name)
     THEN {[err |-> FALSE, ReadyReplicas |-> n] : n \in 0..2}
     ELSE {})

----------------------------------------------------------------------------
(* The handler, step by step *)

Log(r, e) == [events EXCEPT ![r] = Append(@, e)]

\* mutant: the error branch deletes what the request created before it answers
AbortRollback(r, status, msg) ==
    /\ pc' = [pc EXCEPT ![r] = "done"]
    /\ resp' = [resp EXCEPT ![r] =
                  [status |-> status, Success |-> FALSE, Message |-> msg,
                   Resources |-> <<>>]]
    /\ cluster' = { o \in cluster :
                      ~\E i \in DOMAIN events[r] :
                          /\ events[r][i].op = "create" /\ events[r][i].res = "ok"
                          /\ events[r][i].kind = o.kind /\ events[r][i].name = o.name }

\* mutant: the error branch reports the resources created so far
AbortPartial(r, status, msg) ==
    /\ pc' = [pc EXCEPT ![r] = "done"]
    /\ resp' = [resp EXCEPT ![r] =
                  [status |-> status, Success |-> FALSE, Message |-> msg,
                   Resources |->
                     LET made == SelectSeq(events[r],
                                           LAMBDA e : e.op = "create" /\ e.res = "ok")
                     IN  [i \in 1..Len(made) |-> Entry(made[i].kind, made[i].name)]]]
    /\ cluster' = cluster

\* mutant: the error branch forgets w.WriteHeader, the status stays 200
AbortNoHeader(r, status, msg) ==
    /\ pc' = [pc EXCEPT ![r] = "done"]
    /\ resp' = [resp EXCEPT ![r] =
                  [status |-> StatusOK, Success |-> FALSE, Message |-> msg,
                   Resources |-> <<>>]]
    /\ cluster' = cluster

\* the error branch of every step: WriteHeader(status), respondJSON with
\* Success false and no Resources, return.  Nothing is undone.
Abort(r, status, msg) ==
    /\ pc' = [pc EXCEPT ![r] = "done"]
    /\ resp' = [resp EXCEPT ![r] =
                  [status |-> status, Success |-> FALSE, Message |-> msg,
                   Resources |-> <<>>]]
    /\ cluster' = cluster

Goto(r, next) ==
    /\ pc' = [pc EXCEPT ![r] = next]
    /\ resp' = resp

\* mutant: `if payload.X == 0`
DefaultSizeOnlyZero(n) == IF n = 0 THEN DefaultDiskGB ELSE n

\* `if payload.X <= 0 { payload.X = 5 }`
DefaultSize(n) == IF n <= 0 THEN DefaultDiskGB ELSE n

\* `if strings.TrimSpace(payload.DeploymentName) == "" { ... = "wp" }`
DefaultPrefix(dn) == IF TrimSpace(dn) = Empty THEN Wp ELSE dn

\* mutant: the handler goes from validation straight to the client, drawing
\* no suffix
ValidateSkipsSuffix(r) ==
    /\ pc[r] = "start"
    /\ IF request[r].method # "POST"
       THEN /\ Abort(r, StatusMethodNotAllowed, Plain("Only POST is allowed"))
            /\ payload' = payload
       ELSE IF ~request[r].bodyOk
       THEN /\ Abort(r, StatusBadRequest, Plain("Invalid JSON payload"))
            /\ payload' = payload
       ELSE IF request[r].body.Namespace = Empty
       THEN /\ Abort(r, StatusBadRequest, Plain("namespace is required"))
            /\ payload' = [payload EXCEPT ![r] = request[r].body]
       ELSE /\ Goto(r, "initClient")
            /\ cluster' = cluster
            /\ payload' = [payload EXCEPT ![r] =
                 [Namespace |-> request[r].body.Namespace,
                  DeploymentName |-> DefaultPrefix(request[r].body.DeploymentName),
                  PersistenceDiskGB |-> DefaultSize(request[r].body.PersistenceDiskGB),
                  DatabaseDiskGB |-> DefaultSize(request[r].body.DatabaseDiskGB)]]
    /\ UNCHANGED <<fnVars, request, suffix, elapsed, lastFetch, events>>

\* mutant: the `payload.Namespace == ""` check is missing
ValidateNoNamespaceCheck(r) ==
    /\ pc[r] = "start"
    /\ IF request[r].method # "POST"
       THEN /\ Abort(r, StatusMethodNotAllowed, Plain("Only POST is allowed"))
            /\ payload' = payload
       ELSE IF ~request[r].bodyOk
       THEN /\ Abort(r, StatusBadRequest, Plain("Invalid JSON payload"))
            /\ payload' = payload
       ELSE /\ Goto(r, "genSuffix")
            /\ cluster' = cluster
            /\ payload' = [payload EXCEPT ![r] =
                 [Namespace |-> request[r].body.Namespace,
                  DeploymentName |-> DefaultPrefix(request[r].body.DeploymentName),
                  PersistenceDiskGB |-> DefaultSize(request[r].body.PersistenceDiskGB),
                  DatabaseDiskGB |-> DefaultSize(request[r].body.DatabaseDiskGB)]]
    /\ UNCHANGED <<fnVars, request, suffix, elapsed, lastFetch, events>>

\* main.go:354-395: method check, decode, validation, defaults
Validate(r) ==
    /\ pc[r] = "start"
    /\ IF request[r].method # "POST"
       THEN /\ Abort(r, StatusMethodNotAllowed, Plain("Only POST is allowed"))
            /\ payload' = payload
       ELSE IF ~request[r].bodyOk
       THEN /\ Abort(r, StatusBadRequest, Plain("Invalid JSON payload"))
            /\ payload' = payload
       ELSE IF request[r].body.Namespace = Empty
       THEN /\ Abort(r, StatusBadRequest, Plain("namespace is required"))
            /\ payload' = [payload EXCEPT ![r] = request[r].body]
       ELSE /\ Goto(r, "genSuffix")
            /\ cluster' = cluster
            /\ payload' = [payload EXCEPT ![r] =
                 [Namespace |-> request[r].body.Namespace,
                  DeploymentName |-> DefaultPrefix(request[r].body.DeploymentName),
                  PersistenceDiskGB |-> DefaultSize(request[r].body.PersistenceDiskGB),
                  DatabaseDiskGB |-> DefaultSize(request[r].body.DatabaseDiskGB)]]
    /\ UNCHANGED <<fnVars, request, suffix, elapsed, lastFetch, events>>

\* main.go:397-411: the uniqueness suffix
GenerateSuffix(r) ==
    /\ pc[r] = "genSuffix"
    /\ \/ /\ events' = Log(r, Event("rand", "suffix", Empty, "error"))
          /\ Abort(r, StatusInternalServerError, Plain("Could not generate unique suffix"))
          /\ suffix' = suffix
       \/ \E rnd \in SuffixRandSamples :
            /\ suffix' = [suffix EXCEPT ![r] = generateRandomSuffix(SuffixLen, rnd)]
            /\ events' = Log(r, Event("rand", "suffix", Empty, "ok"))
            /\ Goto(r, "initClient")
            /\ cluster' = cluster
    /\ UNCHANGED <<fnVars, request, payload, elapsed, lastFetch>>

\* main.go:413-424: InitKubeClient builds a client or fails; no cluster call
InitClient(r) ==
    /\ pc[r] = "initClient"
    /\ \/ /\ events' = Log(r, Event("init", "client", Empty, "error"))
          /\ Abort(r, StatusInternalServerError, Plain("Could not initialize Kubernetes client"))
       \/ /\ events' = Log(r, Event("init", "client", Empty, "ok"))
          /\ Goto(r, "nsGet")
          /\ cluster' = cluster
    /\ UNCHANGED <<fnVars, request, payload, suffix, elapsed, lastFetch>>

\* mutant: the `err == nil` early return is missing, the Create always follows
EnsureNamespaceGetAlwaysCreates(r) ==
    /\ pc[r] = "nsGet"
    /\ \E res \in GetResults("Namespace", Empty, payload[r].Namespace) :
         /\ events' = Log(r, Event("get", "Namespace", payload[r].Namespace, res))
         /\ Goto(r, "nsCreate")
    /\ cluster' = cluster
    /\ UNCHANGED <<fnVars, request, payload, suffix, elapsed, lastFetch>>

\* part_000:73-77: Namespaces().Get; nil error returns nil, any error falls
\* through to the Create
EnsureNamespaceGet(r) ==
    /\ pc[r] = "nsGet"
    /\ \E res \in GetResults("Namespace", Empty, payload[r].Namespace) :
         /\ events' = Log(r, Event("get", "Namespace", payload[r].Namespace, res))
         /\ Goto(r, IF res = "ok" THEN "createDbPV" ELSE "nsCreate")
    /\ cluster' = cluster
    /\ UNCHANGED <<fnVars, request, payload, suffix, elapsed, lastFetch>>

\* mutant: the error branch answers but does not return
CreateStepNoReturn(r, here, next, obj, text, withErr) ==
    /\ pc[r] = here
    /\ \E res \in CreateResults(obj) :
         /\ events' = Log(r, Event("create", obj.kind, obj.name, res))
         /\ pc' = [pc EXCEPT ![r] = next]
         /\ IF res = "ok"
            THEN /\ cluster' = cluster \cup {obj}
                 /\ resp' = resp
            ELSE /\ cluster' = cluster
                 /\ resp' = [resp EXCEPT ![r] =
                      [status |-> StatusInternalServerError, Success |-> FALSE,
                       Message |-> IF withErr THEN Msg(text, obj.name, res) ELSE Plain(text),
                       Resources |-> <<>>]]
    /\ UNCHANGED <<fnVars, request, payload, suffix, elapsed, lastFetch>>

\* one gateway Create and the handler's branch on its error
\* mutant: a refused create is tried again
CreateStepRetries(r, here, next, obj, text, withErr) ==
    /\ pc[r] = here
    /\ \E res \in CreateResults(obj) :
         /\ events' = Log(r, Event("create", obj.kind, obj.name, res))
         /\ IF res = "ok"
            THEN /\ cluster' = cluster \cup {obj}
                 /\ Goto(r, next)
            ELSE IF Len(events[r]) < 30
            THEN UNCHANGED <<pc, resp, cluster>>
            ELSE Abort(r, StatusInternalServerError,
                       IF withErr THEN Msg(text, obj.name, res) ELSE Plain(text))
    /\ UNCHANGED <<fnVars, request, payload, suffix, elapsed, lastFetch>>

CreateStep(r, here, next, obj, text, withErr) ==
    /\ pc[r] = here
    /\ \E res \in CreateResults(obj) :
         /\ events' = Log(r, Event("create", obj.kind, obj.name, res))
         /\ IF res = "ok"
            THEN /\ cluster' = cluster \cup {obj}
                 /\ Goto(r, next)
            ELSE Abort(r, StatusInternalServerError,
                       IF withErr THEN Msg(text, obj.name, res) ELSE Plain(text))
    /\ UNCHANGED <<fnVars, request, payload, suffix, elapsed, lastFetch>>

\* part_000:79-89 and main.go:431-439
EnsureNamespaceCreate(r) ==
    CreateStep(r, "nsCreate", "createDbPV", NamespaceObj(payload[r].Namespace),
               "unable to create namespace %s: %w", TRUE)

\* main.go:453-466
CreateDbPV(r) ==
    CreateStep(r, "createDbPV", "createDbPVC",
               PersistentVolumeObj(dbPVName(r),
                                   HostPath(payload[r].Namespace, dbPVName(r)),
                                   payload[r].DatabaseDiskGB),
               "Failed to create MySQL PV: unable to create PV %s: %w", TRUE)

\* main.go:468-477
CreateDbPVC(r) ==
    CreateStep(r, "createDbPVC", "createWpPV",
               PersistentVolumeClaimObj(payload[r].Namespace, dbPVCName(r), dbPVName(r),
                                        payload[r].DatabaseDiskGB),
               "Failed to create MySQL PVC: unable to create PVC %s: %w", TRUE)

\* main.go:479-492
CreateWpPV(r) ==
    CreateStep(r, "createWpPV", "createWpPVC",
               PersistentVolumeObj(wpPVName(r),
                                   HostPath(payload[r].Namespace, wpPVName(r)),
                                   payload[r].PersistenceDiskGB),
               "Failed to create WordPress PV: unable to create PV %s: %w", TRUE)

\* main.go:494-503
CreateWpPVC(r) ==
    CreateStep(r, "createWpPVC", "createSecret",
               PersistentVolumeClaimObj(payload[r].Namespace, wpPVCName(r), wpPVName(r),
                                        payload[r].PersistenceDiskGB),
               "Failed to create WordPress PVC: unable to create PVC %s: %w", TRUE)

\* main.go:505-517 and part_000:178-220: two passwords are drawn, then the
\* Secret is created; the handler passes dbServiceName as deployName
CreateSecret(r) ==
    \/ /\ pc[r] = "createSecret"
       /\ events' = Log(r, Event("rand", "password", Empty, "error"))
       /\ Abort(r, StatusInternalServerError, Plain("Failed to create MySQL/WordPress Secret"))
       /\ UNCHANGED <<fnVars, request, payload, suffix, elapsed, lastFetch>>
    \/ \E rootBytes \in PasswordByteSamples, wpBytes \in PasswordByteSamples :
         CreateStep(r, "createSecret", "createDbDeployment",
                    SecretObj(payload[r].Namespace, dbSecretName(r),
                              SecretData(generateRandomPassword(PasswordLen, rootBytes),
                                         generateRandomPassword(PasswordLen, wpBytes),
                                         dbServiceName(r))),
                    "Failed to create MySQL/WordPress Secret", FALSE)

\* main.go:519-530
CreateDbDeployment(r) ==
    CreateStep(r, "createDbDeployment", "createDbService",
               MySQLDeploymentObj(payload[r].Namespace, dbDeploymentName(r),
                                  dbPVCName(r), dbSecretName(r)),
               "Failed to create MySQL deployment", FALSE)

\* mutant: the handler goes from the MySQL service straight to WordPress
CreateDbServiceSkipsWait(r) ==
    CreateStep(r, "createDbService", "createWpDeployment",
               MySQLServiceObj(payload[r].Namespace, dbServiceName(r), dbDeploymentName(r)),
               "Failed to create MySQL service", FALSE)

\* main.go:532-542
CreateDbService(r) ==
    CreateStep(r, "createDbService", "waitDb",
               MySQLServiceObj(payload[r].Namespace, dbServiceName(r), dbDeploymentName(r)),
               "Failed to create MySQL service", FALSE)

\* mutant: `ReadyReplicas >= 0`
DeploymentReadyAnyCount(fetch) == ~fetch.err /\ fetch.ReadyReplicas >= 0

\* part_000:490-504: the poll condition; a fetch error is "not yet"
DeploymentReady(fetch) == ~fetch.err /\ fetch.ReadyReplicas >= 1

\* mutant: the condition returns the fetch error, which ends the poll at once
WaitStepFetchErrorEnds(r, here, next, deployName, text) ==
    /\ pc[r] = here
    /\ \E fetch \in StatusResults(payload[r].Namespace, deployName) :
         /\ lastFetch' = [lastFetch EXCEPT ![r] = fetch]
         /\ IF ~fetch.err /\ fetch.ReadyReplicas >= 1
            THEN /\ events' = Log(r, Event("wait", "Deployment", deployName, "ok"))
                 /\ elapsed' = [elapsed EXCEPT ![r] = 0]
                 /\ Goto(r, next)
                 /\ cluster' = cluster
            ELSE IF fetch.err \/ elapsed[r] + PollInterval > ReadyTimeout
            THEN /\ events' = Log(r, Event("wait", "Deployment", deployName,
                                           IF fetch.err THEN "error" ELSE "timeout"))
                 /\ elapsed' = elapsed
                 /\ Abort(r, StatusInternalServerError, Plain(text))
            ELSE /\ elapsed' = [elapsed EXCEPT ![r] = @ + PollInterval]
                 /\ UNCHANGED <<pc, resp, cluster, events>>
    /\ UNCHANGED <<fnVars, request, payload, suffix>>

\* mutant: the poll has no deadline
WaitStepNoDeadline(r, here, next, deployName, text) ==
    /\ pc[r] = here
    /\ \E fetch \in StatusResults(payload[r].Namespace, deployName) :
         /\ lastFetch' = [lastFetch EXCEPT ![r] = fetch]
         /\ IF ~fetch.err /\ fetch.ReadyReplicas >= 1
            THEN /\ events' = Log(r, Event("wait", "Deployment", deployName, "ok"))
                 /\ elapsed' = [elapsed EXCEPT ![r] = 0]
                 /\ Goto(r, next)
                 /\ cluster' = cluster
            ELSE UNCHANGED <<pc, resp, cluster, events, elapsed>>
    /\ UNCHANGED <<fnVars, request, payload, suffix>>

\* wait.PollImmediate(5s, 120s, cond) and the handler's branch on its error:
\* the condition runs at once and then every interval until the timeout
WaitStep(r, here, next, deployName, text) ==
    /\ pc[r] = here
    /\ \E fetch \in StatusResults(payload[r].Namespace, deployName) :
         /\ lastFetch' = [lastFetch EXCEPT ![r] = fetch]
         /\ IF DeploymentReady(fetch)
            THEN /\ events' = Log(r, Event("wait", "Deployment", deployName, "ok"))
                 /\ elapsed' = [elapsed EXCEPT ![r] = 0]
                 /\ Goto(r, next)
                 /\ cluster' = cluster
            ELSE IF elapsed[r] + PollInterval > ReadyTimeout
            THEN /\ events' = Log(r, Event("wait", "Deployment", deployName, "timeout"))
                 /\ elapsed' = elapsed
                 /\ Abort(r, StatusInternalServerError, Plain(text))
            ELSE /\ elapsed' = [elapsed EXCEPT ![r] = @ + PollInterval]
                 /\ UNCHANGED <<pc, resp, cluster, events>>
    /\ UNCHANGED <<fnVars, request, payload, suffix>>

\* mutant: the handler goes on to the application tier when the wait timed out
WaitDbIgnoresTimeout(r) ==
    /\ pc[r] = "waitDb"
    /\ \E fetch \in StatusResults(payload[r].Namespace, dbDeploymentName(r)) :
         /\ lastFetch' = [lastFetch EXCEPT ![r] = fetch]
         /\ IF DeploymentReady(fetch)
            THEN /\ events' = Log(r, Event("wait", "Deployment", dbDeploymentName(r), "ok"))
                 /\ elapsed' = [elapsed EXCEPT ![r] = 0]
                 /\ Goto(r, "createWpDeployment")
                 /\ cluster' = cluster
            ELSE IF elapsed[r] + PollInterval > ReadyTimeout
            THEN /\ events' = Log(r, Event("wait", "Deployment", dbDeploymentName(r), "timeout"))
                 /\ elapsed' = [elapsed EXCEPT ![r] = 0]
                 /\ Goto(r, "createWpDeployment")
                 /\ cluster' = cluster
            ELSE /\ elapsed' = [elapsed EXCEPT ![r] = @ + PollInterval]
                 /\ UNCHANGED <<pc, resp, cluster, events>>
    /\ UNCHANGED <<fnVars, request, payload, suffix>>

\* main.go:544-556
WaitDb(r) ==
    WaitStep(r, "waitDb", "createWpDeployment", dbDeploymentName(r),
             "MySQL deployment failed to become ready")

\* main.go:558-569
CreateWpDeployment(r) ==
    CreateStep(r, "createWpDeployment", "createWpService",
               WordPressDeploymentObj(payload[r].Namespace, wpDeploymentName(r),
                                      wpPVCName(r), dbSecretName(r), dbServiceName(r)),
               "Failed to create WordPress deployment", FALSE)

\* main.go:571-581
CreateWpService(r) ==
    CreateStep(r, "createWpService", "waitWp",
               WordPressServiceObj(payload[r].Namespace, wpServiceName(r), wpDeploymentName(r)),
               "Failed to create WordPress service", FALSE)

\* mutant: the handler builds the success answer when the second wait timed out
WaitWpIgnoresTimeout(r) ==
    /\ pc[r] = "waitWp"
    /\ \E fetch \in StatusResults(payload[r].Namespace, wpDeploymentName(r)) :
         /\ lastFetch' = [lastFetch EXCEPT ![r] = fetch]
         /\ IF DeploymentReady(fetch)
            THEN /\ events' = Log(r, Event("wait", "Deployment", wpDeploymentName(r), "ok"))
                 /\ elapsed' = [elapsed EXCEPT ![r] = 0]
                 /\ Goto(r, "summary")
                 /\ cluster' = cluster
            ELSE IF elapsed[r] + PollInterval > ReadyTimeout
            THEN /\ events' = Log(r, Event("wait", "Deployment", wpDeploymentName(r), "timeout"))
                 /\ elapsed' = [elapsed EXCEPT ![r] = 0]
                 /\ Goto(r, "summary")
                 /\ cluster' = cluster
            ELSE /\ elapsed' = [elapsed EXCEPT ![r] = @ + PollInterval]
                 /\ UNCHANGED <<pc, resp, cluster, events>>
    /\ UNCHANGED <<fnVars, request, payload, suffix>>

\* main.go:583-595
WaitWp(r) ==
    WaitStep(r, "waitWp", "summary", wpDeploymentName(r),
             "WordPress deployment failed to become ready")

\* mutant: the Secret entry of the list carries the WordPress password
SummaryLeaksPassword(r) ==
    LET sec == CHOOSE o \in cluster : o.kind = "Secret" /\ o.name = dbSecretName(r)
    IN  << Entry("Namespace: ", payload[r].Namespace),
           Entry("PV: ", dbPVName(r)),
           Entry("PVC: ", dbPVCName(r)),
           Entry("PV: ", wpPVName(r)),
           Entry("PVC: ", wpPVCName(r)),
           Entry("Secret: ", dbSecretName(r) \o <<":">> \o sec.spec.data.MYSQL_PASSWORD),
           Entry("MySQL Deployment: ", dbDeploymentName(r)),
           Entry("MySQL Service: ", dbServiceName(r)),
           Entry("WordPress Deployment: ", wpDeploymentName(r)),
           Entry("WordPress Service: ", wpServiceName(r)) >>

\* mutant: the claims are listed before their volumes
SummaryClaimsFirst(r) ==
    << Entry("Namespace: ", payload[r].Namespace),
       Entry("PVC: ", dbPVCName(r)),
       Entry("PV: ", dbPVName(r)),
       Entry("PVC: ", wpPVCName(r)),
       Entry("PV: ", wpPVName(r)),
       Entry("Secret: ", dbSecretName(r)),
       Entry("MySQL Deployment: ", dbDeploymentName(r)),
       Entry("MySQL Service: ", dbServiceName(r)),
       Entry("WordPress Deployment: ", wpDeploymentName(r)),
       Entry("WordPress Service: ", wpServiceName(r)) >>

\* main.go:598-609
Summary(r) ==
    << Entry("Namespace: ", payload[r].Namespace),
       Entry("PV: ", dbPVName(r)),
       Entry("PVC: ", dbPVCName(r)),
       Entry("PV: ", wpPVName(r)),
       Entry("PVC: ", wpPVCName(r)),
       Entry("Secret: ", dbSecretName(r)),
       Entry("MySQL Deployment: ", dbDeploymentName(r)),
       Entry("MySQL Service: ", dbServiceName(r)),
       Entry("WordPress Deployment: ", wpDeploymentName(r)),
       Entry("WordPress Service: ", wpServiceName(r)) >>

SuccessText ==
    "WordPress + MySQL stack created successfully. Strong random credentials have been set for MySQL."

\* main.go:597-617
Respond(r) ==
    /\ pc[r] = "summary"
    /\ pc' = [pc EXCEPT ![r] = "done"]
    /\ resp' = [resp EXCEPT ![r] =
                  [status |-> StatusOK, Success |-> TRUE, Message |-> Plain(SuccessText),
                   Resources |-> Summary(r)]]
    /\ UNCHANGED <<fnVars, request, payload, suffix, elapsed, lastFetch, cluster, events>>

\* what the request has formatted into its log lines so far: the payload and
\* the suffix (main.go:410-411), the names of each step's line and of each
\* wrapped error, the resource list (main.go:611)
LogValues(r) ==
    LET started == \E i \in DOMAIN events[r] :
                       events[r][i] = Event("rand", "suffix", Empty, "ok")
        tried(name) == \E i \in DOMAIN events[r] :
                           events[r][i].op = "create" /\ events[r][i].name = name
    IN  (IF started
         THEN {payload[r].Namespace, payload[r].DeploymentName, suffix[r]}
         ELSE {})
        \cup {events[r][i].name : i \in DOMAIN events[r]}
        \cup (IF started /\ tried(dbPVName(r)) THEN {dbPVCName(r)} ELSE {})
        \cup (IF started /\ tried(wpPVName(r)) THEN {wpPVCName(r)} ELSE {})
        \cup {resp[r].Resources[k].name : k \in DOMAIN resp[r].Resources}

\* what the response of the request carries besides fixed text
ResponseValues(r) ==
    {resp[r].Message.name} \cup
    {resp[r].Resources[k].name : k \in DOMAIN resp[r].Resources}

----------------------------------------------------------------------------
(* Specification: one request against a cluster that may already hold the  *)
(* namespace                                                               *)

ClusterSamples == { {}, {NamespaceObj(Demo)} }

\* the handler's variables before any request has started
Idle ==
    /\ payload = [r \in Reqs |-> ZeroPayload]
    /\ suffix = [r \in Reqs |-> Empty]
    /\ elapsed = [r \in Reqs |-> 0]
    /\ events = [r \in Reqs |-> <<>>]
    /\ resp = [r \in Reqs |-> NoResp]
    /\ lastFetch = [r \in Reqs |-> NoFetch]

NoCall ==
    /\ fnArgs = NoArgs
    /\ fnResult = Empty

Init ==
    /\ pc = [r \in Reqs |-> IF r = 1 THEN "start" ELSE "absent"]
    /\ \E q \in RequestSamples :
         request = [r \in Reqs |-> IF r = 1 THEN q ELSE NoRequest]
    /\ cluster \in ClusterSamples
    /\ Idle
    /\ NoCall

\* one step of request r's handler
Handler(r) ==
    \/ Validate(r)
    \/ GenerateSuffix(r)
    \/ InitClient(r)
    \/ EnsureNamespaceGet(r)
    \/ EnsureNamespaceCreate(r)
    \/ CreateDbPV(r)
    \/ CreateDbPVC(r)
    \/ CreateWpPV(r)
    \/ CreateWpPVC(r)
    \/ CreateSecret(r)
    \/ CreateDbDeployment(r)
    \/ CreateDbService(r)
    \/ WaitDb(r)
    \/ CreateWpDeployment(r)
    \/ CreateWpService(r)
    \/ WaitWp(r)
    \/ Respond(r)

Next == \E r \in Reqs : Handler(r)

Spec == Init /\ [][Next]_vars

\* a request that passes validation
FairInit ==
    /\ Init
    /\ request[1].method = "POST"
    /\ request[1].bodyOk
    /\ request[1].body.Namespace = Demo
    /\ request[1].body.DeploymentName \in {Empty, LongPrefix}
    /\ request[1].body.PersistenceDiskGB = 3

\* a handler goroutine that can take a step eventually takes one: the Go
\* scheduler runs it, the gateway answers, the poller's timer ticks
FairSpec ==
    /\ FairInit
    /\ [][Next]_vars
    /\ \A r \in Reqs : WF_vars(Handler(r))

----------------------------------------------------------------------------
(* Reading the record of a request *)

Ev(r) == events[r]

Answered(r) == resp[r].status # 0

\* a gateway call or a wait or a draw that ended its step in failure; a
\* failing namespace Get does not end step 1, the Create follows it
StepFailure(e) == e.res # "ok" /\ e.op # "get"

IsCreate(e, kind, name) == e.op = "create" /\ e.kind = kind /\ e.name = name

CreatedOk(r, kind, name) ==
    \E i \in DOMAIN Ev(r) : IsCreate(Ev(r)[i], kind, name) /\ Ev(r)[i].res = "ok"

AppTierCreate(r, e) ==
    \/ IsCreate(e, "Deployment", wpDeploymentName(r))
    \/ IsCreate(e, "Service", wpServiceName(r))

DbWait(r, res) == Event("wait", "Deployment", dbDeploymentName(r), res)

----------------------------------------------------------------------------
(* C1: the application-tier workload and endpoint are created only after    *)
(* the readiness wait on the database workload returned success; when that  *)
(* wait times out, no application-tier create is ever issued and the        *)
(* response is the database-readiness failure.                              *)
C1_AppTierAfterDbReady ==
    \A r \in Reqs :
        /\ \A i \in DOMAIN Ev(r) :
             AppTierCreate(r, Ev(r)[i]) =>
                 \E j \in 1..(i - 1) : Ev(r)[j] = DbWait(r, "ok")
        /\ (\E i \in DOMAIN Ev(r) : Ev(r)[i] = DbWait(r, "timeout")) =>
             /\ \A i \in DOMAIN Ev(r) : ~AppTierCreate(r, Ev(r)[i])
             /\ ~Exists("Deployment", payload[r].Namespace, wpDeploymentName(r))
             /\ ~Exists("Service", payload[r].Namespace, wpServiceName(r))
             /\ pc[r] = "done"
             /\ resp[r].Success = FALSE
             /\ resp[r].Message = Plain("MySQL deployment failed to become ready")

\* the database wait has timed out after its last poll and the request is answered
C1_Witness ==
    \E r \in Reqs :
        /\ Ev(r) # <<>>
        /\ Ev(r)[Len(Ev(r))] = DbWait(r, "timeout")
        /\ elapsed[r] = ReadyTimeout
        /\ Answered(r)

----------------------------------------------------------------------------
(* C2: a failed step is the last thing the request does: no gateway create  *)
(* of a later step follows it, and the handler has returned; when the       *)
(* database claim's create fails, nothing of the later steps exists.        *)
C2_FailureHalts ==
    \A r \in Reqs :
        /\ \A i \in DOMAIN Ev(r) : StepFailure(Ev(r)[i]) => i = Len(Ev(r))
        /\ (Answered(r) /\ ~resp[r].Success) => pc[r] = "done"
        /\ (\E i \in DOMAIN Ev(r) :
               IsCreate(Ev(r)[i], "PVC", dbPVCName(r)) /\ Ev(r)[i].res # "ok") =>
             \A k \in {"Secret", "Deployment", "Service"}, o \in cluster :
                 ~(o.kind = k /\ o.ns = payload[r].Namespace)
                 /\ ~(o.kind \in {"PV", "PVC"} /\ o.name \in {wpPVName(r), wpPVCName(r)})

\* the database claim's create failed after the volume was created
C2_Witness ==
    \E r \in Reqs :
        /\ CreatedOk(r, "PV", dbPVName(r))
        /\ \E i \in DOMAIN Ev(r) :
               IsCreate(Ev(r)[i], "PVC", dbPVCName(r)) /\ Ev(r)[i].res = "error"
        /\ pc[r] = "done"

----------------------------------------------------------------------------
(* C3: the WORDPRESS_DB_HOST of the credential store the application        *)
(* workload reads is the name of the database endpoint of the same request. *)
C3_DbHostIsDbEndpoint ==
    \A r \in Reqs :
        (/\ CreatedOk(r, "Secret", dbSecretName(r))
         /\ CreatedOk(r, "Service", dbServiceName(r))) =>
            \A s \in cluster :
                (s.kind = "Secret" /\ s.ns = payload[r].Namespace
                 /\ s.name = dbSecretName(r)) =>
                    s.spec.data.WORDPRESS_DB_HOST = dbServiceName(r)

----------------------------------------------------------------------------
(* C4: no step ever removes or changes an object of the cluster: every      *)
(* object present before a step is present, identical, after it.            *)
C4_NothingUndone == [][\A o \in cluster : o \in cluster']_vars

\* a request answered with a failure whose earlier creates are still in the cluster
C4_Witness ==
    \E r \in Reqs :
        /\ Answered(r) /\ ~resp[r].Success
        /\ CreatedOk(r, "PV", dbPVName(r))
        /\ CreatedOk(r, "Secret", dbSecretName(r))
        /\ Exists("PV", Empty, dbPVName(r))
        /\ Exists("Secret", payload[r].Namespace, dbSecretName(r))

----------------------------------------------------------------------------
(* C5: whenever a step failed, the response has success false and an empty  *)
(* resource list, whatever was created before.                              *)
C5_FailureListsNothing ==
    \A r \in Reqs :
        /\ (\E i \in DOMAIN Ev(r) : StepFailure(Ev(r)[i])) =>
             /\ Answered(r)
             /\ resp[r].Success = FALSE
             /\ resp[r].Resources = <<>>
        /\ (Answered(r) /\ ~resp[r].Success) => resp[r].Resources = <<>>

\* a step failed after the request had created resources
C5_Witness ==
    \E r \in Reqs :
        /\ \E i \in DOMAIN Ev(r) : StepFailure(Ev(r)[i])
        /\ CreatedOk(r, "PV", dbPVName(r))
        /\ CreatedOk(r, "Service", dbServiceName(r))
        /\ Answered(r)

----------------------------------------------------------------------------
(* C6: on success the response lists exactly the ten entries, in the order  *)
(* namespace, db volume, db claim, app volume, app claim, credential store, *)
(* db workload, db endpoint, app workload, app endpoint, which is the order *)
(* in which the gateway operations on them were issued.                     *)

KindOfLabel(label) ==
    CASE label = "Namespace: " -> "Namespace"
      [] label = "PV: " -> "PV"
      [] label = "PVC: " -> "PVC"
      [] label = "Secret: " -> "Secret"
      [] label \in {"MySQL Deployment: ", "WordPress Deployment: "} -> "Deployment"
      [] label \in {"MySQL Service: ", "WordPress Service: "} -> "Service"
      [] OTHER -> "?"

\* the objects the request's get and create calls were about, in call
\* order, a get and a create of the same object counted once
RECURSIVE Targets(_)
Targets(es) ==
    IF es = <<>> THEN <<>>
    ELSE LET e == es[Len(es)]
             before == Targets(SubSeq(es, 1, Len(es) - 1))
             t == <<e.kind, e.name>>
         IN  IF e.op \notin {"get", "create"} THEN before
             ELSE IF before # <<>> /\ before[Len(before)] = t THEN before
             ELSE Append(before, t)

ExpectedLabels ==
    << "Namespace: ", "PV: ", "PVC: ", "PV: ", "PVC: ", "Secret: ",
       "MySQL Deployment: ", "MySQL Service: ",
       "WordPress Deployment: ", "WordPress Service: " >>

C6_TenEntriesInCallOrder ==
    \A r \in Reqs :
        (Answered(r) /\ resp[r].Success) =>
            LET rs == resp[r].Resources
            IN  /\ Len(rs) = 10
                /\ [i \in 1..Len(rs) |-> rs[i].label] = ExpectedLabels
                /\ rs[2].name = dbPVName(r) /\ rs[3].name = dbPVCName(r)
                /\ rs[4].name = wpPVName(r) /\ rs[5].name = wpPVCName(r)
                /\ [i \in 1..Len(rs) |-> <<KindOfLabel(rs[i].label), rs[i].name>>]
                      = Targets(Ev(r))

\* a request answered with success
C6_Witness ==
    \E r \in Reqs : Answered(r) /\ resp[r].Success /\ Len(Ev(r)) >= 10

----------------------------------------------------------------------------
(* C7: every entry of the returned list names an object whose create call   *)
(* succeeded during this request.                                           *)
C7_EntriesWereCreated ==
    \A r \in Reqs :
        (Answered(r) /\ resp[r].Success) =>
            \A i \in DOMAIN resp[r].Resources :
                CreatedOk(r, KindOfLabel(resp[r].Resources[i].label),
                          resp[r].Resources[i].name)

----------------------------------------------------------------------------
(* C8: a namespace Get that fails with an error other than not-found ends   *)
(* the request at step 1 with no namespace Create; the Create is only ever  *)
(* issued right after a not-found.                                          *)
C8_LookupErrorIsFatal ==
    \A r \in Reqs :
        \A i \in DOMAIN Ev(r) :
            /\ (Ev(r)[i].op = "get" /\ Ev(r)[i].res = "error") =>
                   \A j \in DOMAIN Ev(r) : j > i => Ev(r)[j].op # "create"
            /\ (Ev(r)[i].op = "create" /\ Ev(r)[i].kind = "Namespace") =>
                   /\ i > 1
                   /\ Ev(r)[i - 1].op = "get"
                   /\ Ev(r)[i - 1].res = "notfound"

----------------------------------------------------------------------------
(* C9: when the namespace Get succeeds, no namespace Create is issued and   *)
(* the next thing the request does is create the database volume.           *)
C9_ExistingNamespaceNotCreated ==
    \A r \in Reqs :
        \A i \in DOMAIN Ev(r) :
            (Ev(r)[i].op = "get" /\ Ev(r)[i].kind = "Namespace" /\ Ev(r)[i].res = "ok") =>
                /\ \A j \in DOMAIN Ev(r) :
                       ~(Ev(r)[j].op = "create" /\ Ev(r)[j].kind = "Namespace")
                /\ i = Len(Ev(r)) => pc[r] = "createDbPV"
                /\ i < Len(Ev(r)) => IsCreate(Ev(r)[i + 1], "PV", dbPVName(r))

\* the namespace was found and the database volume has been created
C9_Witness ==
    \E r \in Reqs :
        /\ \E i \in DOMAIN Ev(r) :
               Ev(r)[i] = Event("get", "Namespace", payload[r].Namespace, "ok")
        /\ CreatedOk(r, "PV", dbPVName(r))

----------------------------------------------------------------------------
(* C10: a call that is not POST, or whose namespace is empty, is answered   *)
(* with success false and a validation message, and nothing is asked of the *)
(* cluster for it.                                                          *)
C10_RejectedBeforeCluster ==
    \A r \in Reqs :
        (/\ pc[r] \notin {"absent", "start"}
         /\ \/ request[r].method # "POST"
            \/ request[r].bodyOk /\ request[r].body.Namespace = Empty) =>
            /\ pc[r] = "done"
            /\ resp[r].Success = FALSE
            /\ resp[r].Resources = <<>>
            /\ resp[r].Message =
                 IF request[r].method # "POST"
                 THEN Plain("Only POST is allowed")
                 ELSE Plain("namespace is required")
            /\ resp[r].status \in {StatusMethodNotAllowed, StatusBadRequest}
            /\ Ev(r) = <<>>

\* a POST with an empty namespace has been answered
C10_Witness ==
    \E r \in Reqs :
        /\ request[r].method = "POST" /\ request[r].bodyOk
        /\ request[r].body.Namespace = Empty
        /\ Answered(r)

----------------------------------------------------------------------------
(* The readiness poller *)

Waits == {"waitDb", "waitWp"}

\* this step is a poll of request r's readiness wait
Polled(r) ==
    /\ pc[r] \in Waits
    /\ <<pc[r], elapsed[r], events[r]>>' # <<pc[r], elapsed[r], events[r]>>

WaitReturned(r, res) ==
    /\ pc'[r] # pc[r]
    /\ Len(events'[r]) = Len(events[r]) + 1
    /\ events'[r][Len(events'[r])].op = "wait"
    /\ events'[r][Len(events'[r])].res = res

----------------------------------------------------------------------------
(* C12: a poll whose status fetch fails is a "not yet": before the deadline *)
(* the loop goes on with the next poll; a wait only ever ends in failure as *)
(* a timeout, at the deadline.                                              *)
C12_FetchErrorKeepsPolling ==
    /\ [](\A r \in Reqs : \A i \in DOMAIN Ev(r) :
            (Ev(r)[i].op = "wait" /\ Ev(r)[i].res # "ok") =>
                Ev(r)[i].res = "timeout" /\ elapsed[r] = ReadyTimeout)
    /\ [][\A r \in Reqs :
            (Polled(r) /\ lastFetch'[r].err) =>
                IF elapsed[r] + PollInterval > ReadyTimeout
                THEN WaitReturned(r, "timeout")
                ELSE /\ pc'[r] = pc[r]
                     /\ events'[r] = events[r]
                     /\ resp'[r] = resp[r]
                     /\ elapsed'[r] = elapsed[r] + PollInterval]_vars

\* a fetch failed in the middle of a wait and the wait goes on
C12_Witness ==
    \E r \in Reqs :
        /\ pc[r] \in Waits
        /\ lastFetch[r].err
        /\ elapsed[r] = 3 * PollInterval
        /\ ~Answered(r)

----------------------------------------------------------------------------
(* C13: the wait returns success at the very poll that observes a          *)
(* ready-replica count >= 1, and at no other poll.                          *)
C13_SuccessAtFirstReadyPoll ==
    [][\A r \in Reqs :
         Polled(r) =>
            ((~lastFetch'[r].err /\ lastFetch'[r].ReadyReplicas >= 1)
                <=> WaitReturned(r, "ok"))]_vars

\* the application wait has returned success on a fetch with a ready replica
C13_Witness ==
    \E r \in Reqs :
        /\ Ev(r) # <<>>
        /\ Ev(r)[Len(Ev(r))] = Event("wait", "Deployment", wpDeploymentName(r), "ok")
        /\ lastFetch[r].ReadyReplicas >= 1
        /\ pc[r] = "summary"

----------------------------------------------------------------------------
(* C14: a readiness wait always ends: every poll that does not return adds *)
(* the 5-second interval to the time spent, that time never passes the     *)
(* 120-second deadline, and the handler leaves the wait.                   *)
C14_WaitTerminates ==
    /\ [](\A r \in Reqs : elapsed[r] \in 0..ReadyTimeout)
    /\ [][\A r \in Reqs :
            (Polled(r) /\ pc'[r] = pc[r]) =>
                elapsed'[r] = elapsed[r] + PollInterval]_vars
    /\ \A r \in Reqs :
         /\ (pc[r] = "waitDb") ~> (pc[r] # "waitDb")
         /\ (pc[r] = "waitWp") ~> (pc[r] # "waitWp")

\* the application wait has run to its deadline and timed out
C14_Witness ==
    \E r \in Reqs :
        /\ Ev(r) # <<>>
        /\ Ev(r)[Len(Ev(r))] = Event("wait", "Deployment", wpDeploymentName(r), "timeout")
        /\ elapsed[r] = ReadyTimeout
        /\ pc[r] = "done"

----------------------------------------------------------------------------
(* C15: the message of a failed step names the kind and the name of the    *)
(* resource the failed call was about.                                     *)

\* the resource kind a message text speaks of
KindNamedIn(text) ==
    CASE text = "unable to create namespace %s: %w" -> "Namespace"
      [] text \in {"Failed to create MySQL PV: unable to create PV %s: %w",
                   "Failed to create WordPress PV: unable to create PV %s: %w"} -> "PV"
      [] text \in {"Failed to create MySQL PVC: unable to create PVC %s: %w",
                   "Failed to create WordPress PVC: unable to create PVC %s: %w"} -> "PVC"
      [] text = "Failed to create MySQL/WordPress Secret" -> "Secret"
      [] text \in {"Failed to create MySQL deployment",
                   "Failed to create WordPress deployment",
                   "MySQL deployment failed to become ready",
                   "WordPress deployment failed to become ready"} -> "Deployment"
      [] text \in {"Failed to create MySQL service",
                   "Failed to create WordPress service"} -> "Service"
      [] OTHER -> "?"

C15_MessageNamesResource ==
    \A r \in Reqs :
        \A i \in DOMAIN Ev(r) :
            (/\ StepFailure(Ev(r)[i])
             /\ Ev(r)[i].op \in {"create", "wait"}
             /\ Answered(r)) =>
                /\ KindNamedIn(resp[r].Message.fmt) = Ev(r)[i].kind
                /\ resp[r].Message.name = Ev(r)[i].name

----------------------------------------------------------------------------
(* C16: a validation failure is answered with a 4xx status, a failed       *)
(* pipeline step with a 5xx status, and only a success with 200.           *)
C16_StatusMatchesOutcome ==
    \A r \in Reqs :
        Answered(r) =>
            /\ resp[r].Success <=> resp[r].status = StatusOK
            /\ ~resp[r].Success => resp[r].status \in 400..599
            /\ (request[r].method = "POST"
                /\ (~request[r].bodyOk \/ request[r].body.Namespace = Empty)) =>
                   resp[r].status \in 400..499
            /\ (\E i \in DOMAIN Ev(r) : StepFailure(Ev(r)[i])) =>
                   resp[r].status \in 500..599

\* the suffix could not be drawn and the request is answered
C16_Witness ==
    \E r \in Reqs :
        /\ Ev(r) = <<Event("rand", "suffix", Empty, "error")>>
        /\ Answered(r)

----------------------------------------------------------------------------
(* C17: a disk size <= 0 in the request is replaced by 5 before a volume   *)
(* or claim is built with it, and a positive size is used as given.        *)
C17_SizesDefaulted ==
    \A r \in Reqs :
        LET want(n) == IF n <= 0 THEN 5 ELSE n
            db == want(request[r].body.DatabaseDiskGB)
            wp == want(request[r].body.PersistenceDiskGB)
        IN  \A o \in cluster :
                /\ (o.kind = "PV" /\ o.name = dbPVName(r) /\ CreatedOk(r, "PV", o.name))
                      => o.spec.capacityGi = db
                /\ (o.kind = "PVC" /\ o.name = dbPVCName(r) /\ CreatedOk(r, "PVC", o.name))
                      => o.spec.requestGi = db
                /\ (o.kind = "PV" /\ o.name = wpPVName(r) /\ CreatedOk(r, "PV", o.name))
                      => o.spec.capacityGi = wp
                /\ (o.kind = "PVC" /\ o.name = wpPVCName(r) /\ CreatedOk(r, "PVC", o.name))
                      => o.spec.requestGi = wp

\* both claims exist for a request with a negative and a positive size
C17_Witness ==
    \E r \in Reqs :
        /\ request[r].body.DatabaseDiskGB = -1
        /\ request[r].body.PersistenceDiskGB = 3
        /\ CreatedOk(r, "PVC", dbPVCName(r))
        /\ CreatedOk(r, "PVC", wpPVCName(r))

----------------------------------------------------------------------------
(* buildResourceName called on its own *)

ResourceTypes == {TDbPV, TDbPVC, TDb, TDbSvc, TDbSecret, TWpPV, TWpPVC, TWp, TWpSvc}

\* resource types that leave the prefix no room, or less than none
WideTypes == { [i \in 1..n |-> "t"] : n \in {53, 56} }

PrefixOfLen(n) == [i \in 1..n |-> SuffixChars[(i % Len(SuffixChars)) + 1]]

NameSuffixSamples ==
    { generateRandomSuffix(SuffixLen, <<35, 7, 10, 28, 16>>),
      <<"a", "b", "c">>,
      <<"a", "b", "c", "d", "e", "f", "g">> }

NameArgSamples ==
    { [prefix |-> PrefixOfLen(n), resourceType |-> t, suffix |-> x] :
        n \in 0..MaxPrefixLen, t \in ResourceTypes \cup WideTypes,
        x \in NameSuffixSamples }

NameInit ==
    /\ pc = [r \in Reqs |-> "absent"]
    /\ request = [r \in Reqs |-> NoRequest]
    /\ cluster = {}
    /\ Idle
    /\ fnArgs \in NameArgSamples
    /\ fnResult = Empty

CallBuildResourceName ==
    /\ fnResult = Empty
    /\ fnResult' = buildResourceName(fnArgs.prefix, fnArgs.resourceType, fnArgs.suffix)
    /\ UNCHANGED <<pc, request, payload, suffix, elapsed, cluster, events, resp,
                   lastFetch, fnArgs>>

NameNext == CallBuildResourceName

NameSpec == NameInit /\ [][NameNext]_vars

Returned == fnResult # Empty

----------------------------------------------------------------------------
(* C19: with a 5-character suffix and one of the nine resource types of    *)
(* the pipeline, the name is never longer than 60 characters, whatever the *)
(* length of the prefix.                                                   *)
C19_NameAtMostSixty ==
    (/\ Returned
     /\ Len(fnArgs.suffix) = 5
     /\ fnArgs.resourceType \in ResourceTypes) =>
        Len(fnResult) <= 60

\* the longest prefix with the longest resource type gives a name of 60
C19_Witness ==
    /\ Returned
    /\ Len(fnArgs.prefix) = MaxPrefixLen
    /\ Len(fnArgs.suffix) = 5
    /\ fnArgs.resourceType = TDbSecret
    /\ Len(fnResult) = 60

----------------------------------------------------------------------------
(* C20: for every prefix, resource type and suffix the name is the prefix  *)
(* cut to max(0, 60 - (len(resourceType) + len(suffix) + 2)) characters,   *)
(* then "-", the whole suffix, "-", the whole resource type.               *)
ReferenceName(prefix, resourceType, sfx) ==
    LET room == 60 - (Len(resourceType) + Len(sfx) + 2)
        allowed == IF room < 0 THEN 0 ELSE room
        kept == IF Len(prefix) > allowed THEN SubSeq(prefix, 1, allowed) ELSE prefix
    IN  kept \o <<"-">> \o sfx \o <<"-">> \o resourceType

C20_NameIsReference ==
    Returned =>
        fnResult = ReferenceName(fnArgs.prefix, fnArgs.resourceType, fnArgs.suffix)

----------------------------------------------------------------------------
(* Two requests with the same prefix, served concurrently *)

ConcRequest ==
    [method |-> "POST", bodyOk |-> TRUE,
     body |-> [Namespace |-> Demo, DeploymentName |-> Site,
               PersistenceDiskGB |-> 3, DatabaseDiskGB |-> 3]]

ConcInit ==
    /\ pc = [r \in Reqs |-> IF r \in {1, 2} THEN "start" ELSE "absent"]
    /\ request = [r \in Reqs |-> IF r \in {1, 2} THEN ConcRequest ELSE NoRequest]
    /\ cluster = {}
    /\ Idle
    /\ NoCall

\* the two pipelines in any interleaving; a readiness wait is followed for
\* MaxConcPolls polls after its first
ConcNext ==
    \E r \in Reqs : Handler(r) /\ elapsed'[r] <= MaxConcPolls * PollInterval

ConcSpec == ConcInit /\ [][ConcNext]_vars

----------------------------------------------------------------------------
(* C11: two requests with the same prefix that run concurrently never      *)
(* attempt to create two resources of the same kind under the same name,   *)
(* in any interleaving of their pipelines.                                 *)
SameTarget(e, f) ==
    /\ e.op = "create"
    /\ f.op = "create"
    /\ e.kind = f.kind
    /\ e.name = f.name

C11_NoNameCollision ==
    \A r1, r2 \in Reqs :
        (r1 # r2 /\ payload[r1].DeploymentName = payload[r2].DeploymentName) =>
            \A i \in DOMAIN Ev(r1), j \in DOMAIN Ev(r2) :
                ~SameTarget(Ev(r1)[i], Ev(r2)[j])

----------------------------------------------------------------------------
(* The handler of the first main package of main.go (lines 45-297): it     *)
(* draws no suffix and builds its names from the deployment name alone     *)

DashSep == <<"-">>
UnderDb == <<"_","d","b">>
UnderWordpress == <<"_","w","o","r","d","p","r","e","s","s">>

FirstName(r, resourceType) == payload[r].DeploymentName \o DashSep \o resourceType

FirstHostPath(r, tail) ==
    MntData \o payload[r].Namespace \o <<"/">> \o payload[r].DeploymentName \o tail

\* main.go:46-91: method check, decode, validation, size defaults
FirstValidate(r) ==
    /\ pc[r] = "start"
    /\ IF request[r].method # "POST"
       THEN /\ Abort(r, StatusMethodNotAllowed, Plain("Only POST is allowed"))
            /\ payload' = payload
       ELSE IF ~request[r].bodyOk
       THEN /\ Abort(r, StatusBadRequest, Plain("Invalid JSON payload"))
            /\ payload' = payload
       ELSE IF request[r].body.Namespace = Empty
       THEN /\ Abort(r, StatusBadRequest, Plain("namespace is required"))
            /\ payload' = [payload EXCEPT ![r] = request[r].body]
       ELSE IF request[r].body.DeploymentName = Empty
       THEN /\ Abort(r, StatusBadRequest, Plain("deployment_name is required"))
            /\ payload' = [payload EXCEPT ![r] = request[r].body]
       ELSE /\ Goto(r, "initClient")
            /\ cluster' = cluster
            /\ payload' = [payload EXCEPT ![r] =
                 [Namespace |-> request[r].body.Namespace,
                  DeploymentName |-> request[r].body.DeploymentName,
                  PersistenceDiskGB |-> DefaultSize(request[r].body.PersistenceDiskGB),
                  DatabaseDiskGB |-> DefaultSize(request[r].body.DatabaseDiskGB)]]
    /\ UNCHANGED <<fnVars, request, suffix, elapsed, lastFetch, events>>

\* main.go:123-137
FirstCreateDbPV(r) ==
    CreateStep(r, "createDbPV", "createDbPVC",
               PersistentVolumeObj(FirstName(r, TDbPV), FirstHostPath(r, UnderDb),
                                   payload[r].DatabaseDiskGB),
               "Failed to create MySQL PV", FALSE)

\* main.go:139-148
FirstCreateDbPVC(r) ==
    CreateStep(r, "createDbPVC", "createWpPV",
               PersistentVolumeClaimObj(payload[r].Namespace, FirstName(r, TDbPVC),
                                        FirstName(r, TDbPV), payload[r].DatabaseDiskGB),
               "Failed to create MySQL PVC", FALSE)

\* main.go:150-164
FirstCreateWpPV(r) ==
    CreateStep(r, "createWpPV", "createWpPVC",
               PersistentVolumeObj(FirstName(r, TWpPV), FirstHostPath(r, UnderWordpress),
                                   payload[r].PersistenceDiskGB),
               "Failed to create WordPress PV", FALSE)

\* main.go:166-175
FirstCreateWpPVC(r) ==
    CreateStep(r, "createWpPVC", "createSecret",
               PersistentVolumeClaimObj(payload[r].Namespace, FirstName(r, TWpPVC),
                                        FirstName(r, TWpPV), payload[r].PersistenceDiskGB),
               "Failed to create WordPress PVC", FALSE)

\* main.go:177-190 and part_000:178-220: deployName is the deployment name
FirstCreateSecret(r) ==
    \/ /\ pc[r] = "createSecret"
       /\ events' = Log(r, Event("rand", "password", Empty, "error"))
       /\ Abort(r, StatusInternalServerError, Plain("Failed to create MySQL/WordPress Secret"))
       /\ UNCHANGED <<fnVars, request, payload, suffix, elapsed, lastFetch>>
    \/ \E rootBytes \in PasswordByteSamples, wpBytes \in PasswordByteSamples :
         CreateStep(r, "createSecret", "createDbDeployment",
                    SecretObj(payload[r].Namespace, FirstName(r, TDbSecret),
                              SecretData(generateRandomPassword(PasswordLen, rootBytes),
                                         generateRandomPassword(PasswordLen, wpBytes),
                                         payload[r].DeploymentName)),
                    "Failed to create MySQL/WordPress Secret", FALSE)

\* main.go:192-206
FirstCreateDbDeployment(r) ==
    CreateStep(r, "createDbDeployment", "createDbService",
               MySQLDeploymentObj(payload[r].Namespace, FirstName(r, TDb),
                                  FirstName(r, TDbPVC), FirstName(r, TDbSecret)),
               "Failed to create MySQL deployment", FALSE)

\* main.go:208-218
FirstCreateDbService(r) ==
    CreateStep(r, "createDbService", "waitDb",
               MySQLServiceObj(payload[r].Namespace, FirstName(r, TDbSvc),
                               FirstName(r, TDb)),
               "Failed to create MySQL service", FALSE)

\* main.go:220-232
FirstWaitDb(r) ==
    WaitStep(r, "waitDb", "createWpDeployment", FirstName(r, TDb),
             "MySQL deployment failed to become ready")

\* main.go:234-248
FirstCreateWpDeployment(r) ==
    CreateStep(r, "createWpDeployment", "createWpService",
               WordPressDeploymentObj(payload[r].Namespace, FirstName(r, TWp),
                                      FirstName(r, TWpPVC), FirstName(r, TDbSecret),
                                      FirstName(r, TDbSvc)),
               "Failed to create WordPress deployment", FALSE)

\* main.go:250-260
FirstCreateWpService(r) ==
    CreateStep(r, "createWpService", "waitWp",
               WordPressServiceObj(payload[r].Namespace, FirstName(r, TWpSvc),
                                   FirstName(r, TWp)),
               "Failed to create WordPress service", FALSE)

\* main.go:262-274
FirstWaitWp(r) ==
    WaitStep(r, "waitWp", "summary", FirstName(r, TWp),
             "WordPress deployment failed to become ready")

\* main.go:277-288
FirstSummary(r) ==
    << Entry("Namespace: ", payload[r].Namespace),
       Entry("PV: ", FirstName(r, TDbPV)),
       Entry("PVC: ", FirstName(r, TDbPVC)),
       Entry("PV: ", FirstName(r, TWpPV)),
       Entry("PVC: ", FirstName(r, TWpPVC)),
       Entry("Secret: ", FirstName(r, TDbSecret)),
       Entry("MySQL Deployment: ", FirstName(r, TDb)),
       Entry("MySQL Service: ", FirstName(r, TDbSvc)),
       Entry("WordPress Deployment: ", FirstName(r, TWp)),
       Entry("WordPress Service: ", FirstName(r, TWpSvc)) >>

\* main.go:276-296
FirstRespond(r) ==
    /\ pc[r] = "summary"
    /\ pc' = [pc EXCEPT ![r] = "done"]
    /\ resp' = [resp EXCEPT ![r] =
                  [status |-> StatusOK, Success |-> TRUE, Message |-> Plain(SuccessText),
                   Resources |-> FirstSummary(r)]]
    /\ UNCHANGED <<fnVars, request, payload, suffix, elapsed, lastFetch, cluster, events>>

FirstHandler(r) ==
    \/ FirstValidate(r)
    \/ InitClient(r)
    \/ EnsureNamespaceGet(r)
    \/ EnsureNamespaceCreate(r)
    \/ FirstCreateDbPV(r)
    \/ FirstCreateDbPVC(r)
    \/ FirstCreateWpPV(r)
    \/ FirstCreateWpPVC(r)
    \/ FirstCreateSecret(r)
    \/ FirstCreateDbDeployment(r)
    \/ FirstCreateDbService(r)
    \/ FirstWaitDb(r)
    \/ FirstCreateWpDeployment(r)
    \/ FirstCreateWpService(r)
    \/ FirstWaitWp(r)
    \/ FirstRespond(r)

FirstNext == \E r \in Reqs : FirstHandler(r)

FirstSpec == Init /\ [][FirstNext]_vars

----------------------------------------------------------------------------
(* C18: a request with a namespace and no deployment_name (absent, empty   *)
(* or whitespace only) is not answered 400 and is provisioned with the     *)
(* prefix "wp".                                                            *)
NoDeploymentName(r) ==
    /\ request[r].method = "POST"
    /\ request[r].bodyOk
    /\ request[r].body.Namespace # Empty
    /\ TrimSpace(request[r].body.DeploymentName) = Empty

C18_MissingNameDefaulted ==
    \A r \in Reqs :
        (Answered(r) /\ NoDeploymentName(r)) =>
            /\ resp[r].status # StatusBadRequest
            /\ payload[r].DeploymentName = Wp

----------------------------------------------------------------------------
(* C21: a request draws at most one suffix, the suffix it has drawn never   *)
(* changes, and every named resource it attempts to create (volumes,       *)
(* claims, credential store, workloads, endpoints) carries exactly that    *)
(* suffix, as do the nine names of its resource list.                      *)
EndsWith(s, t) ==
    /\ Len(s) >= Len(t)
    /\ SubSeq(s, Len(s) - Len(t) + 1, Len(s)) = t

SuffixDraws(r) ==
    {i \in DOMAIN Ev(r) : Ev(r)[i].op = "rand" /\ Ev(r)[i].kind = "suffix"}

NamedCreates(r) ==
    {i \in DOMAIN Ev(r) : Ev(r)[i].op = "create" /\ Ev(r)[i].kind # "Namespace"}

CarriesSuffix(r, name) ==
    \E t \in ResourceTypes :
        EndsWith(name, <<"-">> \o suffix[r] \o <<"-">> \o t)

C21_OneSuffixInAllNames ==
    /\ [](\A r \in Reqs :
            /\ Cardinality(SuffixDraws(r)) <= 1
            /\ \A i \in NamedCreates(r) :
                 /\ Cardinality(SuffixDraws(r)) = 1
                 /\ Len(suffix[r]) = SuffixLen
                 /\ CarriesSuffix(r, Ev(r)[i].name)
            /\ \A k \in DOMAIN resp[r].Resources :
                 k > 1 => CarriesSuffix(r, resp[r].Resources[k].name))
    /\ [][\A r \in Reqs : suffix[r] # Empty => suffix'[r] = suffix[r]]_vars

\* a request that created all nine named resources and listed them
C21_Witness ==
    /\ pc[1] = "done"
    /\ resp[1].Success
    /\ Cardinality(NamedCreates(1)) = 9
    /\ Cardinality({Ev(1)[i].name : i \in NamedCreates(1)}) = 9
    /\ Len(resp[1].Resources) = 10

----------------------------------------------------------------------------
(* generateRandomPassword called on its own *)

ByteValues == 0..255

\* what rand.Read can put into the buffer: every byte value at every position
ByteStrides == {0, 1, 37}

BytesOf(length, first, stride) ==
    [i \in 1..length |-> (first + (i - 1) * stride) % 256]

PasswordArgSamples ==
    { [length |-> n, bytes |-> BytesOf(n, b, d), entropy |-> ok] :
        n \in 0..MaxPasswordLen, b \in ByteValues, d \in ByteStrides,
        ok \in BOOLEAN }

PasswordInit ==
    /\ pc = [r \in Reqs |-> "absent"]
    /\ request = [r \in Reqs |-> NoRequest]
    /\ cluster = {}
    /\ Idle
    /\ fnArgs \in PasswordArgSamples
    /\ fnResult = Empty

\* part_000:513-523: the string and a nil error, or "" and the error of rand.Read
CallGenerateRandomPassword ==
    /\ fnResult = Empty
    /\ fnResult' = IF fnArgs.entropy
                   THEN <<generateRandomPassword(fnArgs.length, fnArgs.bytes), "nil">>
                   ELSE <<Empty, "error">>
    /\ UNCHANGED <<pc, request, payload, suffix, elapsed, cluster, events, resp,
                   lastFetch, fnArgs>>

PasswordNext == CallGenerateRandomPassword

PasswordSpec == PasswordInit /\ [][PasswordNext]_vars

PasswordAlphabet == {PasswordChars[i] : i \in DOMAIN PasswordChars}

----------------------------------------------------------------------------
(* C22: for every length N >= 0 and every content of the random buffer the *)
(* password has exactly N characters, all of the alphabet, and comes with  *)
(* no error; when the random source fails the result is the error and the  *)
(* empty string.                                                           *)
C22_PasswordLengthAndAlphabet ==
    Returned =>
        IF fnArgs.entropy
        THEN /\ fnResult[2] = "nil"
             /\ Len(fnResult[1]) = fnArgs.length
             /\ \A i \in DOMAIN fnResult[1] : fnResult[1][i] \in PasswordAlphabet
        ELSE /\ fnResult[2] = "error"
             /\ fnResult[1] = Empty

\* a 16-character password whose buffer held the largest byte value
C22_Witness ==
    /\ Returned
    /\ fnArgs.entropy
    /\ fnArgs.length = PasswordLen
    /\ \E i \in DOMAIN fnArgs.bytes : fnArgs.bytes[i] = 255
    /\ Len(fnResult[1]) = PasswordLen

----------------------------------------------------------------------------
(* C23: every character of the alphabet is produced by the same number of  *)
(* the 256 equally likely byte values, so each character of a password is  *)
(* uniformly distributed over the alphabet.                                *)
BytesGiving(c) ==
    {b \in ByteValues : generateRandomPassword(1, <<b>>)[1] = c}

C23_CharactersUniform ==
    (Returned /\ fnArgs.entropy) =>
        \A i \in DOMAIN fnResult[1] :
            \A c \in PasswordAlphabet :
                Cardinality(BytesGiving(fnResult[1][i])) = Cardinality(BytesGiving(c))

----------------------------------------------------------------------------
(* C24: the two generated passwords of a Secret in the cluster occur in no  *)
(* log line and in no response, and in no cluster object other than that   *)
(* Secret.                                                                 *)
Contains(s, t) ==
    \E k \in 0..(Len(s) - Len(t)) : SubSeq(s, k + 1, k + Len(t)) = t

Secrets == {o \in cluster : o.kind = "Secret"}

PasswordsOf(o) == {o.spec.data.MYSQL_ROOT_PASSWORD, o.spec.data.MYSQL_PASSWORD}

ObjectValues(o) ==
    {o.name} \cup
    (CASE o.kind = "PV" -> {o.spec.labelApp, o.spec.hostPath}
       [] o.kind = "PVC" -> {o.spec.labelApp, o.spec.selectorApp}
       [] o.kind = "Deployment" ->
            {o.spec.labelApp, o.spec.envFromSecret, o.spec.claimName}
       [] o.kind = "Service" -> {o.spec.selectorApp}
       [] OTHER -> {})

C24_PasswordsOnlyInSecret ==
    \A sec \in Secrets : \A pw \in PasswordsOf(sec) :
        /\ Len(pw) = PasswordLen
        /\ \A r \in Reqs :
             /\ \A v \in LogValues(r) : ~Contains(v, pw)
             /\ \A v \in ResponseValues(r) : ~Contains(v, pw)
        /\ \A o \in cluster \ Secrets : \A v \in ObjectValues(o) : ~Contains(v, pw)

\* a request that stored its Secret, logged its list and answered success
C24_Witness ==
    /\ Secrets # {}
    /\ pc[1] = "done"
    /\ resp[1].Success
    /\ Len(resp[1].Resources) = 10
    /\ \E o \in cluster : o.kind = "Deployment"

----------------------------------------------------------------------------
(* C25: when two requests into the same namespace, which does not exist    *)
(* yet, interleave their get and create calls, neither is refused at step  *)
(* 1 because the other created the namespace first: no request ends with a *)
(* failure answer after a namespace create that found the name taken,      *)
(* the gateway itself meeting no error.                                    *)
RefusedAtNamespace(r) ==
    /\ Answered(r)
    /\ ~resp[r].Success
    /\ Ev(r) # <<>>
    /\ Ev(r)[Len(Ev(r))] = Event("create", "Namespace", payload[r].Namespace, "exists")

\* no call of any request met an error of the gateway itself
GatewaySound == \A q \in Reqs : \A i \in DOMAIN Ev(q) : Ev(q)[i].res # "error"

C25_NamespaceStepIdempotent ==
    GatewaySound => \A r \in Reqs : ~RefusedAtNamespace(r)

----------------------------------------------------------------------------
(* C26: a request issues at most one create per resource, at most one      *)
(* namespace get and at most one wait per deployment; a create that failed *)
(* is the request's last call. Only the status fetch of a wait repeats.    *)
GatewayCalls(r) ==
    {i \in DOMAIN Ev(r) : Ev(r)[i].op \in {"get", "create", "wait"}}

C26_NoCallRepeated ==
    \A r \in Reqs :
        /\ \A i, j \in GatewayCalls(r) :
             (/\ i # j
              /\ Ev(r)[i].op = Ev(r)[j].op
              /\ Ev(r)[i].kind = Ev(r)[j].kind) => Ev(r)[i].name # Ev(r)[j].name
        /\ \A i \in GatewayCalls(r) :
             (Ev(r)[i].op = "create" /\ Ev(r)[i].res # "ok") => i = Len(Ev(r))

\* the second wait has fetched the status several times; every create of the
\* request was issued once
C26_Witness ==
    /\ pc[1] = "waitWp"
    /\ elapsed[1] >= 2 * PollInterval
    /\ Cardinality({i \in GatewayCalls(1) : Ev(1)[i].op = "create"}) >= 8

----------------------------------------------------------------------------
(* C27, as stated: the suffix is drawn only after the namespace has been   *)
(* ensured, so a suffix draw in the record of a request is preceded by a   *)
(* namespace get that found it or a namespace create that succeeded.       *)
NamespaceEnsured(e) ==
    /\ e.kind = "Namespace"
    /\ e.op \in {"get", "create"}
    /\ e.res = "ok"

IsSuffixDraw(e) == e.op = "rand" /\ e.kind = "suffix"

C27_SuffixAfterNamespace ==
    \A r \in Reqs : \A i \in DOMAIN Ev(r) :
        IsSuffixDraw(Ev(r)[i]) =>
            \E j \in 1..(i - 1) : NamespaceEnsured(Ev(r)[j])

(* C27, amended: the suffix is drawn before the client is built and before *)
(* the namespace is ensured. The draw is the first call of a request; a    *)
(* request whose draw failed has made no gateway call, and a request that  *)
(* failed at the namespace step holds the suffix it drew.                  *)
FailedAtNamespace(r) ==
    /\ Answered(r)
    /\ Ev(r) # <<>>
    /\ Ev(r)[Len(Ev(r))].op = "create"
    /\ Ev(r)[Len(Ev(r))].kind = "Namespace"
    /\ Ev(r)[Len(Ev(r))].res # "ok"

C27_SuffixBeforeNamespace ==
    \A r \in Reqs :
        /\ Ev(r) # <<>> => IsSuffixDraw(Ev(r)[1])
        /\ (Ev(r) # <<>> /\ Ev(r)[1].res # "ok") => Len(Ev(r)) = 1
        /\ (Len(Ev(r)) > 1 \/ pc[r] = "initClient") => Len(suffix[r]) = SuffixLen
        /\ FailedAtNamespace(r) => Len(suffix[r]) = SuffixLen

\* a request that failed at the namespace step, its suffix drawn
C27_Witness ==
    /\ FailedAtNamespace(1)
    /\ resp[1].status = StatusInternalServerError
    /\ Len(suffix[1]) = SuffixLen
    /\ IsSuffixDraw(Ev(1)[1])

----------------------------------------------------------------------------
(* C28: a request is answered success = true only if its namespace was     *)
(* ensured (found, or created), each of its nine creates (two volumes, two *)
(* claims, Secret, two deployments, two services) succeeded and both waits *)
(* returned success.                                                       *)
NineResources(r) ==
    { <<"PV", dbPVName(r)>>, <<"PVC", dbPVCName(r)>>,
      <<"PV", wpPVName(r)>>, <<"PVC", wpPVCName(r)>>,
      <<"Secret", dbSecretName(r)>>,
      <<"Deployment", dbDeploymentName(r)>>, <<"Service", dbServiceName(r)>>,
      <<"Deployment", wpDeploymentName(r)>>, <<"Service", wpServiceName(r)>> }

WaitOk(r, name) ==
    \E i \in DOMAIN Ev(r) : Ev(r)[i] = Event("wait", "Deployment", name, "ok")

C28_SuccessMeansAllDone ==
    \A r \in Reqs :
        resp[r].Success =>
            /\ \E i \in DOMAIN Ev(r) : NamespaceEnsured(Ev(r)[i])
            /\ Cardinality(NineResources(r)) = 9
            /\ \A kn \in NineResources(r) : CreatedOk(r, kn[1], kn[2])
            /\ WaitOk(r, dbDeploymentName(r))
            /\ WaitOk(r, wpDeploymentName(r))
            /\ \A i \in DOMAIN Ev(r) : Ev(r)[i].op # "get" => Ev(r)[i].res = "ok"

\* a success answer to a request that had to create its namespace
C28_Witness ==
    /\ resp[1].Success
    /\ resp[1].status = StatusOK
    /\ CreatedOk(1, "Namespace", payload[1].Namespace)
    /\ pc[1] = "done"

----------------------------------------------------------------------------
(* C29: in every Secret of the cluster the user, password and database     *)
(* name given to WordPress equal the ones MySQL is initialised with, and   *)
(* each deployment of a request takes its environment from the Secret of   *)
(* that request.                                                           *)
DeploymentsOf(r) ==
    {o \in cluster : /\ o.kind = "Deployment"
                     /\ o.ns = payload[r].Namespace
                     /\ o.name \in {dbDeploymentName(r), wpDeploymentName(r)}}

C29_OneStoreSameCredentials ==
    /\ \A sec \in Secrets :
         /\ sec.spec.data.WORDPRESS_DB_USER = sec.spec.data.MYSQL_USER
         /\ sec.spec.data.WORDPRESS_DB_PASSWORD = sec.spec.data.MYSQL_PASSWORD
         /\ sec.spec.data.WORDPRESS_DB_NAME = sec.spec.data.MYSQL_DATABASE
    /\ \A r \in Reqs : \A o \in DeploymentsOf(r) :
         /\ o.spec.envFromSecret = dbSecretName(r)
         /\ Exists("Secret", o.ns, o.spec.envFromSecret)

\* both deployments run from a Secret whose two passwords differ
C29_Witness ==
    /\ Cardinality(DeploymentsOf(1)) = 2
    /\ \E sec \in Secrets :
         /\ sec.name = dbSecretName(1)
         /\ sec.spec.data.MYSQL_ROOT_PASSWORD # sec.spec.data.MYSQL_PASSWORD

----------------------------------------------------------------------------
(* C30: an accepted request, every call of which returns, ends with one    *)
(* response. Its position only moves to the next step of the pipeline (the *)
(* namespace create is passed over when the get found the namespace) or to *)
(* the end with a failure answer; a response is written exactly when the   *)
(* request ends and is never written again.                                *)
StepOrder ==
    << "start", "genSuffix", "initClient", "nsGet", "nsCreate", "createDbPV",
       "createDbPVC", "createWpPV", "createWpPVC", "createSecret",
       "createDbDeployment", "createDbService", "waitDb", "createWpDeployment",
       "createWpService", "waitWp", "summary", "done" >>

StepOf(label) == CHOOSE i \in DOMAIN StepOrder : StepOrder[i] = label

Forward(r) ==
    \/ pc'[r] = pc[r] /\ resp'[r] = resp[r]
    \/ /\ StepOf(pc'[r]) = StepOf(pc[r]) + 1
       /\ (pc'[r] = "done") = resp'[r].Success
       /\ pc'[r] # "done" => resp'[r] = resp[r]
    \/ /\ pc[r] = "nsGet"
       /\ pc'[r] = "createDbPV"
       /\ resp'[r] = resp[r]
       /\ events'[r][Len(events'[r])] =
              Event("get", "Namespace", payload[r].Namespace, "ok")
    \/ /\ pc[r] \notin {"summary", "done"}
       /\ pc'[r] = "done"
       /\ resp'[r].status # 0
       /\ ~resp'[r].Success

C30_OneResponseNoLoop ==
    /\ [](\A r \in Reqs : pc[r] # "absent" => (Answered(r) <=> pc[r] = "done"))
    /\ [][\A r \in Reqs :
            /\ pc[r] # "absent" => Forward(r)
            /\ pc[r] = "done" => (pc'[r] = "done" /\ resp'[r] = resp[r])]_vars
    /\ \A r \in Reqs : (pc[r] = "start") ~> (pc[r] = "done" /\ Answered(r))

\* a request that went through every step, polled, and was answered success
C30_Witness ==
    /\ pc[1] = "done"
    /\ resp[1].Success
    /\ Len(Ev(1)) = 14
    /\ lastFetch[1].ReadyReplicas >= 1

====
